---- MODULE Spec2Model ----
(***************************************************************************)
(* A model of hermes, a webhook-driven deploy agent.                       *)
(*                                                                         *)
(* The repository holds two hyper services with the same `tx` interface:   *)
(*   - ReqHandler (src/src/req_handler.rs), which validates a request,     *)
(*     spawns trigger_update as a detached task and answers at once;       *)
(*   - Svc (src/src/main.rs), which validates a request and runs the       *)
(*     deploy steps inside the request before answering.                   *)
(* main() (src/src/main.rs) owns the receiving end of the capacity-1       *)
(* channel and shuts the server down when a descriptor arrives on it.      *)
(* The variable `svc` records which of the two services the server was     *)
(* built with; every behaviour uses one of them throughout.                *)
(*                                                                         *)
(* Strings that the code slices or compares (the signature header, the hex *)
(* digest) are sequences of one-character strings.                         *)
(***************************************************************************)
EXTENDS Integers, Sequences, FiniteSets, TLC

\* ------------------------------------------------------------------ bounds
\* Number of HTTP requests delivered to the server in one behaviour.
MaxReqs == 2
\* Number of containers of the non-self image that run before the first request.
NumInitial == 2
\* Number of failures the environment injects in one behaviour: a failed
\* network, engine or file operation.
MaxFaults == 1
\* Number of commits ever pushed to the remote's main branch.
MaxCommits == 3

\* ------------------------------------------------------- program constants
\* env!("CARGO_PKG_NAME"): the running service's own name.
PKG_NAME == "hermes"
\* git_sig[7..]: the length of the algorithm prefix that is sliced off.
PrefixLen == 7
\* mpsc::channel::<Config>(1)
ChannelCapacity == 1

\* Deployment names that occur in payloads.
Names == {PKG_NAME, "app"}
\* Shared secrets: SECRET is one of them; the other is a secret the sender
\* of a forged request may have used.
Secrets == {1, 2}

Reqs == 1..MaxReqs

\* ------------------------------------------------------------ request data
\* A request body.  `code` stands for the body's bytes, `utf8` says whether
\* they decode as UTF-8, `json` whether json::parse accepts the text, and the
\* remaining fields are the JSON values found at the four paths the handlers
\* read: a deployment name or URL (a JSON string), "num" (a JSON value that
\* is not a string) or "null" (the path is absent).
Body(code, utf8, json, rname, rurl, tname, turl) ==
    [code |-> code, utf8 |-> utf8, json |-> json,
     repo_name |-> rname, repo_url |-> rurl, top_name |-> tname, top_url |-> turl]

BadUtf8Body  == Body(1, FALSE, FALSE, "null", "null", "null", "null")
NotJsonBody  == Body(2, TRUE, FALSE, "null", "null", "null", "null")
SelfBody     == Body(3, TRUE, TRUE, PKG_NAME, "git@self", "null", "null")
AppBody      == Body(4, TRUE, TRUE, "app", "git@app", "null", "null")
NoUrlBody    == Body(5, TRUE, TRUE, "app", "null", "null", "null")
NumNameBody  == Body(6, TRUE, TRUE, "num", "git@app", "null", "null")
TopAppBody   == Body(7, TRUE, TRUE, "null", "null", "app", "git@app")
TopSelfBody  == Body(8, TRUE, TRUE, "null", "null", PKG_NAME, "git@self")

Bodies == {BadUtf8Body, NotJsonBody, SelfBody, AppBody, NoUrlBody, NumNameBody,
           TopAppBody, TopSelfBody}

\* JsonValue::as_str(): Some(s) for a JSON string, None for anything else.
\* None is written "none".
as_str(v) == IF v \in {"null", "num"} THEN "none" ELSE v

\* ------------------------------------------------------------- HMAC and hex
\* HMAC::mac(body, secret).  The real digest is 32 bytes of HMAC-SHA256; the
\* model keeps one byte and a keyed mixing function that has no collision
\* over Bodies \X Secrets (the collision resistance the verifier relies on).
HMAC_mac(body, key) == (37 * key + 11 * body.code + 5) % 256

HexDigits == <<"0", "1", "2", "3", "4", "5", "6", "7",
               "8", "9", "a", "b", "c", "d", "e", "f">>

\* hex::encode of the one-byte digest: two lowercase hex characters.
hex_encode(byte) == <<HexDigits[(byte \div 16) + 1], HexDigits[(byte % 16) + 1]>>

\* A header as HeaderMap::get(key) and HeaderValue::to_str() see it:
\* "absent", "binary" (present, not visible ASCII) or "text" with its value.
Header(kind, val) == [kind |-> kind, val |-> val]
NoHeader     == Header("absent", <<>>)
BinaryHeader == Header("binary", <<>>)

\* let get = move |key| Some(headers.get(key)?.to_str().ok()?.to_string());
\* None is written as the record NoHeader.
get(h) == IF h.kind = "text" THEN h ELSE NoHeader

Sha256Prefix == <<"s", "h", "a", "2", "5", "6", "=">>
OtherPrefix  == <<"s", "h", "a", "5", "1", "2", "=">>
ShortValue   == <<"s", "h", "a">>

\* Another body than b, whose digest a sender may submit with b.
OtherBody(b) == IF b = AppBody THEN SelfBody ELSE AppBody

\* The signature headers delivered together with body b: none, unreadable,
\* shorter than the prefix, the bare prefix, and either prefix followed by the
\* hex digest of b or of another body under either secret.
SigHeadersFor(b) ==
    {NoHeader, BinaryHeader, Header("text", ShortValue), Header("text", Sha256Prefix)}
    \cup { Header("text", p \o hex_encode(HMAC_mac(bb, k))) :
             p \in {Sha256Prefix, OtherPrefix},
             bb \in {b, OtherBody(b)},
             k \in Secrets }

PushEvent == Header("text", <<"p", "u", "s", "h">>)
EventHeaders == {NoHeader, PushEvent}

Methods == {"POST", "GET"}

\* git_sig[7..] panics when the header value is shorter than 7 bytes.
SlicePanics(git_sig) == Len(git_sig) < PrefixLen
\* git_sig[7..]
SliceFrom7(git_sig) == SubSeq(git_sig, PrefixLen + 1, Len(git_sig))

\* A verifier that compares the whole header value with "sha256=" followed
\* by the digest.
SigMatchesWholeValue(git_sig, body, key) ==
    git_sig = Sha256Prefix \o hex_encode(HMAC_mac(body, key))

\* A verifier that keys the HMAC with a fixed key instead of SECRET.
SigMatchesFixedKey(git_sig, body, key) ==
    SliceFrom7(git_sig) = hex_encode(HMAC_mac(body, 1))

\* git_sig[7..] == hex::encode(HMAC::mac(body.as_bytes(), &SECRET))
SigMatches(git_sig, body, key) == SliceFrom7(git_sig) = hex_encode(HMAC_mac(body, key))


\* ---------------------------------------------------- utils::git, by commit
\* The commits of a history (a sequence of commit ids, oldest first) and its
\* newest commit.
Commits(h) == {h[i] : i \in DOMAIN h}
Tip(h) == h[Len(h)]

\* A checkout directory: whether it exists, the history of its local branch
\* and the commit whose files the working tree holds.
Checkout(branch) == [exists |-> TRUE, branch |-> branch, tree |-> Tip(branch)]
NoCheckout == [exists |-> FALSE, branch |-> <<>>, tree |-> 0]

\* The remote's main branch (one commit at first), the number of commits
\* ever pushed to it, the checkout, the checkout as it was before the last
\* sync, what the last sync returned ("true", "false", "err"; "none" before
\* the first), whether the remote changed since the last successful sync, and
\* whether the last sync ran on a checkout that was in step with the remote.
NoRepo ==
    [upstream |-> <<1>>, made |-> 1, path |-> NoCheckout, before |-> NoCheckout,
     changed |-> "none", moved |-> FALSE, again |-> FALSE]

\* clone: RepoBuilder::clone, then Ok(true).
clone(upstream) == [path |-> Checkout(upstream), changed |-> "true"]

\* repo.rebase(None, Some(&fetchhead), None, ..): the operations of the
\* rebase are the commits of the local branch that the fetched head does
\* not have.
RebaseOperations(branch, upstream) == Commits(branch) \ Commits(upstream)

\* fetch: the rebase is opened, which checks the fetched head out (forced),
\* and finished at once, which moves the local branch to it; no operation
\* is applied in between.  The result is rebase.len() != 0; the iteration
\* over the finished rebase that follows applies nothing.
fetch(path, upstream) ==
    [path |-> Checkout(upstream),
     changed |-> IF RebaseOperations(path.branch, upstream) = {}
                 THEN "false" ELSE "true"]

\* clone_or_fetch_repo on one path: fetch when the path is a directory, clone
\* otherwise; `ok` is whether the network, the credential and the rebase let
\* it succeed.  A failure leaves the path as it was.
clone_or_fetch(path, upstream, ok) ==
    IF ~ok THEN [path |-> path, changed |-> "err"]
    ELSE IF path.exists THEN fetch(path, upstream)
    ELSE clone(upstream)

\* ------------------------------------------------------------------- state
VARIABLES
    svc,         \* the service the server was built with: "ReqHandler" or "Svc"
    SECRET,      \* lazy_static SECRET: the shared secret of this process
    req,         \* per request: the request, the handler's position, the response
    task,        \* per request: the deploy steps it started and their position
    chan,        \* the mpsc channel's buffer (tx is cloned into every handler)
    config,      \* main's `config`: what rx.recv() returned, if anything
    mainPc,      \* main's position: Serving, ShuttingDown, Reapplying, Terminated
    mainLog,     \* the engine calls main made after the server shut down
    containers,  \* the engine's containers
    nextId,      \* the id the engine assigns to the next created container
    cloned,      \* names whose checkout directory exists under REPOS_DIR
    faults,      \* failures injected so far
    git          \* one remote repository and its checkout, commit by commit

vars == <<svc, SECRET, req, task, chan, config, mainPc, mainLog, containers,
          nextId, cloned, faults, git>>

\* A deployment descriptor (config::Config).  `name` is the file stem; `by`
\* is the request whose deploy steps read the file, standing for the
\* contents (url, restart, env, volumes, ports) read at that moment.
Config(name, by) == [name |-> name, by |-> by]
NoConfig == Config("none", 0)

\* One call made by a deploy step: the operation, the container it names
\* (0 when it names none) and how it ended.
Call(op, arg, out) == [op |-> op, arg |-> arg, out |-> out]

IdleReq ==
    [pc |-> "idle", method |-> "none", sig |-> NoHeader, event |-> NoHeader,
     body |-> BadUtf8Body, agg |-> "none", steps |-> <<>>,
     status |-> 0, respBody |-> "none"]

NoTask ==
    [pc |-> "none", origin |-> "none", name |-> "none", url |-> "none",
     dockerfile |-> "unchecked", descriptor |-> "unchecked",
     listed |-> <<>>, conts |-> <<>>, cfg |-> NoConfig, log |-> <<>>]

\* A container of the engine.  `name` is the container's name ("gen" for a
\* runtime-assigned one), `image` the image it was created from.
Container(id, name, image, running) ==
    [id |-> id, name |-> name, image |-> image, running |-> running]

\* Positions at which a connection's request is no longer in flight.
Finished == {"idle", "done", "panicked", "errored", "closed"}

\* A request whose connection has ended: the request and its response are
\* dropped.
ClosedReq == [IdleReq EXCEPT !.pc = "closed"]

Init ==
    /\ svc \in {"ReqHandler", "Svc"}
    /\ SECRET \in Secrets
    /\ req = [r \in Reqs |-> IdleReq]
    /\ task = [r \in Reqs |-> NoTask]
    /\ chan = <<>>
    /\ config = NoConfig
    /\ mainPc = "Serving"
    /\ mainLog = <<>>
    /\ containers = { Container(i, IF i = 1 THEN "app" ELSE "gen", "app", TRUE) :
                        i \in 1..NumInitial }
    /\ nextId = NumInitial + 1
    /\ cloned = {}
    /\ faults = 0
    /\ git = NoRepo

\* The environment injects `n` more failures, within its budget.
Inject(n) == faults + n <= MaxFaults /\ faults' = faults + n
\* 1 when the condition is an injected failure, 0 otherwise.
Cost(failed) == IF failed THEN 1 ELSE 0

\* ---------------------------------------------------------------- responses
\* fn response(status): the status with an empty body.  Response::default()
\* with its status set (main.rs) has an empty body as well.
response(q, status) ==
    [q EXCEPT !.pc = "done", !.status = status, !.respBody = "empty"]

\* The handler's future panicked (an unwrap on None, a slice out of range):
\* the connection's task ends and no response is written.
Panicked(q) == [q EXCEPT !.pc = "panicked"]
\* The handler's future returned Err (the `?` operator): hyper closes the
\* connection without a response.
Errored(q) == [q EXCEPT !.pc = "errored"]

\* A request arrives while the server accepts connections; requests are
\* numbered in their order of arrival.
Arrives(r) ==
    /\ mainPc = "Serving"
    /\ req[r].pc = "idle"
    /\ \A i \in Reqs : i < r => req[i].pc # "idle"

NewReq(method, sig, event, body) ==
    [IdleReq EXCEPT !.method = method, !.sig = sig, !.event = event, !.body = body]

\* The requests once request r was taken up as q: the connections of the
\* earlier requests that were answered or dropped have ended by then.
Accepted(r, q) ==
    [i \in Reqs |->
       IF i = r THEN q
       ELSE IF req[i].pc \in {"done", "panicked", "errored"} THEN ClosedReq
       ELSE req[i]]

\* The payloads of deliveries that name a deployment, in the shape either
\* service reads.
Deliveries == {SelfBody, AppBody, TopSelfBody, TopAppBody}

\* The signature header the hosting service computes for a body.
Signed(body) == Header("text", Sha256Prefix \o hex_encode(HMAC_mac(body, SECRET)))

\* ------------------------------------------------------- ReqHandler::call
\* A handler that takes every method for POST.
IsPostAnyMethod(method) == method \in Methods

\* match *req.method() { Method::POST => ..., _ => 405 }
IsPost(method) == method = "POST"

\* get("X-Hub-Signature-256").zip(get("X-GitHub-Event")).is_none()
HeadersMissing(sig, event) == get(sig) = NoHeader \/ get(event) = NoHeader

\* repo["name"].as_str().zip(repo["ssh_url"].as_str()).is_none()
ParamsMissing(body) ==
    as_str(body.repo_name) = "none" \/ as_str(body.repo_url) = "none"

\* The deploy steps for (name, url), at their first step.
NewTask(origin, name, url) ==
    [NoTask EXCEPT !.pc = "sync", !.origin = origin, !.name = name, !.url = url]

\* req_handler.rs 119-132: the method, the two headers, then the await on
\* body::aggregate.
ReqHandlerTakes(r, method, sig, event, body) ==
    /\ svc = "ReqHandler"
    /\ Arrives(r)
    /\ LET q == NewReq(method, sig, event, body) IN
       req' = Accepted(r,
                 IF ~IsPost(method) THEN response(q, 405)
                 ELSE IF HeadersMissing(sig, event) THEN response(q, 400)
                 ELSE [q EXCEPT !.pc = "aggregate"])
    /\ UNCHANGED <<git, svc, SECRET, task, chan, config, mainPc, mainLog, containers,
                   nextId, cloned, faults>>

\* A request of any method, headers and body.
ReqHandlerCall(r) ==
    /\ svc = "ReqHandler" /\ Arrives(r)
    /\ \E method \in Methods, body \in Bodies, event \in EventHeaders :
       \E sig \in SigHeadersFor(body) :
         ReqHandlerTakes(r, method, sig, event, body)

\* A delivery by the hosting service: a POST with the event header, a payload
\* that names a deployment and the payload's digest under SECRET.
ReqHandlerDelivery(r) ==
    /\ svc = "ReqHandler" /\ Arrives(r)
    /\ \E body \in Deliveries :
         ReqHandlerTakes(r, "POST", Signed(body), PushEvent, body)

\* A handler that parses the payload and extracts its fields before it
\* compares the signature.
ReqHandlerVerdictParsesFirst(q, aggOk) ==
    IF ~aggOk THEN "400"
    ELSE IF ~q.body.utf8 THEN "400"
    ELSE IF ~q.body.json THEN "400"
    ELSE IF ParamsMissing(q.body) THEN "400"
    ELSE IF SlicePanics(q.sig.val) THEN "panic"
    ELSE IF ~SigMatches(q.sig.val, q.body, SECRET) THEN "401"
    ELSE "200"

\* req_handler.rs 132-172, after body::aggregate returned: every check up to
\* the response runs without another await.
ReqHandlerVerdict(q, aggOk) ==
    IF ~aggOk THEN "400"
    ELSE IF ~q.body.utf8 THEN "400"
    ELSE IF SlicePanics(q.sig.val) THEN "panic"
    ELSE IF ~SigMatches(q.sig.val, q.body, SECRET) THEN "401"
    ELSE IF ~q.body.json THEN "400"
    ELSE IF ParamsMissing(q.body) THEN "400"
    ELSE "200"

\* The checks the handler ran on its way to the verdict, in order.
ReqHandlerSteps(q, aggOk) ==
    IF ~aggOk \/ ~q.body.utf8 THEN <<>>
    ELSE IF SlicePanics(q.sig.val) THEN <<"hmac">>
    ELSE IF ~SigMatches(q.sig.val, q.body, SECRET) THEN <<"hmac", "compare">>
    ELSE IF ~q.body.json THEN <<"hmac", "compare", "parse">>
    ELSE IF ParamsMissing(q.body) THEN <<"hmac", "compare", "parse", "extract">>
    ELSE <<"hmac", "compare", "parse", "extract", "spawn">>

ReqHandlerBody(r) ==
    /\ svc = "ReqHandler"
    /\ mainPc \in {"Serving", "ShuttingDown"}
    /\ req[r].pc = "aggregate"
    /\ \E aggOk \in BOOLEAN :
         LET q == [req[r] EXCEPT !.agg = IF aggOk THEN "ok" ELSE "err",
                                 !.steps = ReqHandlerSteps(req[r], aggOk)]
             v == ReqHandlerVerdict(req[r], aggOk)
         IN
         /\ Inject(Cost(~aggOk))
         /\ req' = [req EXCEPT ![r] =
                      CASE v = "panic" -> Panicked(q)
                        [] v = "400" -> response(q, 400)
                        [] v = "401" -> response(q, 401)
                        [] OTHER -> response(q, 200)]
         /\ task' = IF v = "200"
                    THEN [task EXCEPT ![r] =
                            NewTask("spawned", as_str(q.body.repo_name),
                                    as_str(q.body.repo_url))]
                    ELSE task
    /\ UNCHANGED <<git, svc, SECRET, chan, config, mainPc, mainLog, containers,
                   nextId, cloned>>

\* ------------------------------------------------------------ utils::git
\* A sync whose failure removes every checkout under REPOS_DIR.
clone_or_fetch_repoWipes(name, ok) ==
    IF ok THEN cloned \cup {name} ELSE {}

\* clone_or_fetch_repo: fetch when the path is a directory, clone otherwise.
\* `ok` is whether the network, the credential and the rebase let it succeed.
\* The result is the set of checkouts afterwards: only a successful clone
\* creates one.
clone_or_fetch_repo(name, ok) ==
    IF name \in cloned THEN cloned
    ELSE IF ok THEN cloned \cup {name}
    ELSE cloned

\* What clone_or_fetch_repo returned: Ok(_) or Err(_).
SyncOut(ok) == IF ok THEN "ok" ELSE "err"

\* --------------------------------------------------------- utils::docker
\* How the build ended in the engine: "ok", "tar_err" (append_dir_all
\* failed before anything was submitted) or "stream_err" (an entry of the
\* progress stream was an error).
BuildOutcomes == {"ok", "tar_err", "stream_err"}

\* build_image's Result: only the tar step is propagated with `?`; every
\* entry of the stream, error or not, is traced and dropped.
build_image(outcome) == IF outcome = "tar_err" THEN "err" ELSE "ok"

RECURSIVE SortedSeq(_)
\* The elements of a finite set of integers in ascending order.
SortedSeq(S) ==
    IF S = {} THEN <<>>
    ELSE LET m == CHOOSE x \in S : \A y \in S : x <= y
         IN <<m>> \o SortedSeq(S \ {m})

\* The running containers whose image is `name` (the "ancestor" filter;
\* list_containers without `all` reports running containers only).
Ancestors(name) == {c \in containers : c.image = name /\ c.running}

\* find_containers_with_image on success: one ContainerSummaryInner per
\* match.  `id` is Option<String>; 0 stands for None, and `anon` is the
\* container (if any) the engine reported without its id, which is a shape of
\* the engine's answer and not a failed call.
find_containers_with_image(name, anon) ==
    LET ids == SortedSeq({c.id : c \in Ancestors(name)})
    IN [i \in 1..Len(ids) |-> [id |-> IF ids[i] = anon THEN 0 ELSE ids[i]]]

\* The containers a reference resolves to: the engine takes an id or a name.
ById(id) == {c \in containers : c.id = id}
ByName(name) == {c \in containers : c.name = name}

\* stop_container(docker, name): stop, then remove, each propagated with `?`.
\* The outcomes the engine can produce for the containers a reference
\* resolves to: a call on a container that does not exist fails.
StopOutcomes(target) ==
    {"stop_err"} \cup (IF target # {} THEN {"remove_err", "ok"} ELSE {})

\* A stop_container that calls remove whether or not the stop succeeded.
StopCallsRemovesAnyway(id, out) ==
    CASE out = "stop_err"   -> <<Call("stop", id, "err"), Call("remove", id, "err")>>
      [] out = "remove_err" -> <<Call("stop", id, "ok"), Call("remove", id, "err")>>
      [] OTHER              -> <<Call("stop", id, "ok"), Call("remove", id, "ok")>>

\* The calls stop_container made for an outcome.
StopCalls(id, out) ==
    CASE out = "stop_err"   -> <<Call("stop", id, "err")>>
      [] out = "remove_err" -> <<Call("stop", id, "ok"), Call("remove", id, "err")>>
      [] OTHER              -> <<Call("stop", id, "ok"), Call("remove", id, "ok")>>

\* The engine's containers after stop_container ended with `out`.
StopEffect(target, out) ==
    CASE out = "stop_err"   -> containers
      [] out = "remove_err" ->
           {IF c \in target THEN [c EXCEPT !.running = FALSE] ELSE c : c \in containers}
      [] OTHER              -> containers \ target

\* The id of the container a reference resolved to, 0 if there is none.
TargetId(target) ==
    IF target = {} THEN 0 ELSE CHOOSE i \in {c.id : c \in target} : TRUE

\* run_container(docker, config): inspect_image, create_container with no
\* name (the engine assigns one), start_container, each propagated with `?`.
RunOutcomes == {"inspect_err", "create_err", "start_err", "ok"}

\* A run_container that drops the result of each call and makes the next.
RunCallsUnchecked(out) ==
    CASE out = "inspect_err" -> <<Call("inspect", 0, "err"), Call("create", 0, "err")>>
      [] out = "create_err"  -> <<Call("inspect", 0, "ok"), Call("create", 0, "err"),
                                  Call("start", 0, "err")>>
      [] out = "start_err"   -> <<Call("inspect", 0, "ok"), Call("create", nextId, "ok"),
                                  Call("start", nextId, "err")>>
      [] OTHER               -> <<Call("inspect", 0, "ok"), Call("create", nextId, "ok"),
                                  Call("start", nextId, "ok")>>

\* The calls run_container made for an outcome.
RunCalls(out) ==
    CASE out = "inspect_err" -> <<Call("inspect", 0, "err")>>
      [] out = "create_err"  -> <<Call("inspect", 0, "ok"), Call("create", 0, "err")>>
      [] out = "start_err"   -> <<Call("inspect", 0, "ok"), Call("create", nextId, "ok"),
                                  Call("start", nextId, "err")>>
      [] OTHER               -> <<Call("inspect", 0, "ok"), Call("create", nextId, "ok"),
                                  Call("start", nextId, "ok")>>

\* The engine's containers after run_container ended with `out`.
RunEffect(cfg, out) ==
    CASE out \in {"inspect_err", "create_err"} -> containers
      [] out = "start_err" -> containers \cup {Container(nextId, "gen", cfg.name, FALSE)}
      [] OTHER             -> containers \cup {Container(nextId, "gen", cfg.name, TRUE)}

\* The next id the engine assigns after run_container ended with `out`.
RunNextId(out) == IF out \in {"start_err", "ok"} THEN nextId + 1 ELSE nextId

\* ------------------------------------------------------- deploy steps
Logged(t, calls) == [t EXCEPT !.log = @ \o calls]

\* The sync step and the test for a Dockerfile at the checkout's root, which
\* follow each other without an await.  The result of the sync is logged and
\* otherwise ignored; a Dockerfile can only be found in an existing checkout.
AfterSync(t, ok, dockerfile) ==
    LET found == dockerfile /\ t.name \in clone_or_fetch_repo(t.name, ok)
    IN [Logged(t, <<Call("sync", 0, SyncOut(ok))>>) EXCEPT
          !.dockerfile = IF found THEN "found" ELSE "absent",
          !.pc = IF found THEN "build" ELSE "done"]

\* Deploy steps that load the descriptor without testing for its file.
AfterBuildLoadsAnyway(t, outcome, descriptor) ==
    [Logged(t, <<Call("build", 0, outcome)>>) EXCEPT
       !.descriptor = IF descriptor THEN "found" ELSE "absent",
       !.pc = "load"]

\* build_image and the test for the descriptor file.  The result of the build
\* is logged and otherwise ignored.
AfterBuild(t, outcome, descriptor) ==
    [Logged(t, <<Call("build", 0, outcome)>>) EXCEPT
       !.descriptor = IF descriptor THEN "found" ELSE "absent",
       !.pc = IF descriptor THEN "load" ELSE "done"]

\* Deploy steps that reconcile every target, the own name included.
AfterLoadNoSelfCheck(t, r, ok) ==
    IF ok
    THEN [Logged(t, <<Call("load", 0, "ok")>>) EXCEPT
            !.cfg = Config(t.name, r), !.pc = "reconcile"]
    ELSE [Logged(t, <<Call("load", 0, "err")>>) EXCEPT !.pc = "panicked"]

\* Config::from_file(config_path).await.unwrap(), then `name == PKG_NAME`.
AfterLoad(t, r, ok) ==
    IF ok
    THEN [Logged(t, <<Call("load", 0, "ok")>>) EXCEPT
            !.cfg = Config(t.name, r),
            !.pc = IF t.name = PKG_NAME THEN "send" ELSE "reconcile"]
    ELSE [Logged(t, <<Call("load", 0, "err")>>) EXCEPT !.pc = "panicked"]

\* A channel whose send completes whether or not a value is pending.
CanSendAlways == TRUE

\* tx.send(config).await: completes when the channel has a free slot.
CanSend == Len(chan) < ChannelCapacity

AfterSend(t) == [Logged(t, <<Call("send", 0, "ok")>>) EXCEPT !.pc = "done"]

\* ------------------------------------------- trigger_update (req_handler.rs)
\* The spawned task runs while the process lives.
Alive == mainPc # "Terminated"

\* A runtime that runs one spawned task at a time, in the order of spawning.
SpawnedInTurn(r) ==
    /\ task[r].origin = "spawned"
    /\ \A i \in Reqs : i < r => task[i].pc \in {"none", "done", "panicked"}

Spawned(r) == task[r].origin = "spawned"

\* req_handler.rs 50-57
TaskSync(r) ==
    /\ Alive /\ Spawned(r) /\ task[r].pc = "sync"
    /\ \E ok \in BOOLEAN, dockerfile \in BOOLEAN :
         /\ Inject(Cost(~ok))
         /\ cloned' = clone_or_fetch_repo(task[r].name, ok)
         /\ task' = [task EXCEPT ![r] = AfterSync(task[r], ok, dockerfile)]
    /\ UNCHANGED <<git, svc, SECRET, req, chan, config, mainPc, mainLog, containers, nextId>>

\* req_handler.rs 58-67
TaskBuild(r) ==
    /\ Alive /\ Spawned(r) /\ task[r].pc = "build"
    /\ \E outcome \in BuildOutcomes, descriptor \in BOOLEAN :
         /\ Inject(Cost(outcome # "ok"))
         /\ task' = [task EXCEPT ![r] = AfterBuild(task[r], outcome, descriptor)]
    /\ UNCHANGED <<git, svc, SECRET, req, chan, config, mainPc, mainLog, containers,
                   nextId, cloned>>

\* req_handler.rs 68-71
TaskLoad(r) ==
    /\ Alive /\ Spawned(r) /\ task[r].pc = "load"
    /\ \E ok \in BOOLEAN :
         /\ Inject(Cost(~ok))
         /\ task' = [task EXCEPT ![r] = AfterLoad(task[r], r, ok)]
    /\ UNCHANGED <<git, svc, SECRET, req, chan, config, mainPc, mainLog, containers,
                   nextId, cloned>>

\* req_handler.rs 72-73
TaskSend(r) ==
    /\ Alive /\ Spawned(r) /\ task[r].pc = "send"
    /\ CanSend
    /\ chan' = Append(chan, task[r].cfg)
    /\ task' = [task EXCEPT ![r] = AfterSend(task[r])]
    /\ UNCHANGED <<git, svc, SECRET, req, config, mainPc, mainLog, containers, nextId, cloned, faults>>

\* After the listing, and after each iteration of `for c in conts`: the next
\* iteration if a summary is left, run_container otherwise.
LoopPc(conts) == IF conts = <<>> THEN "run" ELSE "stop"

\* Deploy steps that call run_container although the listing failed.
AfterListRunsAnyway(t, ok, anon) ==
    IF ok
    THEN LET conts == find_containers_with_image(t.name, anon)
         IN [Logged(t, <<Call("list", 0, "ok")>>) EXCEPT
               !.listed = conts, !.conts = conts, !.pc = LoopPc(conts)]
    ELSE [Logged(t, <<Call("list", 0, "err")>>) EXCEPT !.pc = "run"]

\* req_handler.rs 75-77 and 92-95: the listing; on Err the task logs and ends.
AfterList(t, ok, anon) ==
    IF ok
    THEN LET conts == find_containers_with_image(t.name, anon)
         IN [Logged(t, <<Call("list", 0, "ok")>>) EXCEPT
               !.listed = conts, !.conts = conts, !.pc = LoopPc(conts)]
    ELSE [Logged(t, <<Call("list", 0, "err")>>) EXCEPT !.pc = "done"]

TaskList(r) ==
    /\ Alive /\ Spawned(r) /\ task[r].pc = "reconcile"
    /\ \E ok \in BOOLEAN, anon \in {0} \cup {c.id : c \in Ancestors(task[r].name)} :
         /\ ok \/ anon = 0
         /\ Inject(Cost(~ok))
         /\ task' = [task EXCEPT ![r] = AfterList(task[r], ok, anon)]
    /\ UNCHANGED <<git, svc, SECRET, req, chan, config, mainPc, mainLog, containers,
                   nextId, cloned>>

\* A loop that gives up at the first stop_container that failed.
AfterStopAbortsOnFailure(t, out) ==
    LET id == Head(t.conts).id
        calls == IF id = 0 THEN <<>> ELSE StopCalls(id, out)
        failed == id # 0 /\ out # "ok"
    IN [Logged(t, calls) EXCEPT
          !.conts = IF failed THEN <<>> ELSE Tail(t.conts),
          !.pc = IF failed THEN "done" ELSE LoopPc(Tail(t.conts))]

\* A loop that ends after its first iteration.
AfterStopBreaks(t, out) ==
    LET id == Head(t.conts).id
        calls == IF id = 0 THEN <<>> ELSE StopCalls(id, out)
    IN [Logged(t, calls) EXCEPT !.conts = <<>>, !.pc = "run"]

\* req_handler.rs 78-85: one iteration of the loop.  A summary without an id
\* is passed over; a failure of stop_container is logged and the loop goes on.
AfterStop(t, out) ==
    LET id == Head(t.conts).id
        calls == IF id = 0 THEN <<>> ELSE StopCalls(id, out)
    IN [Logged(t, calls) EXCEPT !.conts = Tail(t.conts), !.pc = LoopPc(Tail(t.conts))]

TaskStop(r) ==
    /\ Alive /\ Spawned(r) /\ task[r].pc = "stop"
    /\ LET id == Head(task[r].conts).id IN
       \E out \in IF id = 0 THEN {"skip"} ELSE StopOutcomes(ById(id)) :
         /\ Inject(Cost(id # 0 /\ out # "ok" /\ ById(id) # {}))
         /\ containers' = IF id = 0 THEN containers ELSE StopEffect(ById(id), out)
         /\ task' = [task EXCEPT ![r] = AfterStop(task[r], out)]
    /\ UNCHANGED <<git, svc, SECRET, req, chan, config, mainPc, mainLog, nextId, cloned>>

\* req_handler.rs 87-90: run_container; its failure is logged.
AfterRun(t, out) == [Logged(t, RunCalls(out)) EXCEPT !.pc = "done"]

TaskRun(r) ==
    /\ Alive /\ Spawned(r) /\ task[r].pc = "run"
    /\ \E out \in RunOutcomes :
         /\ Inject(Cost(out # "ok"))
         /\ containers' = RunEffect(task[r].cfg, out)
         /\ nextId' = RunNextId(out)
         /\ task' = [task EXCEPT ![r] = AfterRun(task[r], out)]
    /\ UNCHANGED <<git, svc, SECRET, req, chan, config, mainPc, mainLog, cloned>>

\* ------------------------------------------------------ Svc::call (main.rs)
Inline(r) == task[r].origin = "inline" /\ req[r].pc = "pipeline"

\* The request's position after one of its deploy steps: the steps ended
\* (Ok(Response::new(Body::empty()))), an unwrap panicked, or the next await.
SvcAfter(q, t) ==
    CASE t.pc = "done"     -> response(q, 200)
      [] t.pc = "panicked" -> Panicked(q)
      [] OTHER             -> [q EXCEPT !.pc = "pipeline"]

\* main.rs 71-79 and 123-127: the method, the two unwraps on the headers, then
\* the await on body::aggregate.
SvcTakes(r, method, sig, event, body) ==
    /\ svc = "Svc"
    /\ Arrives(r)
    /\ LET q == NewReq(method, sig, event, body) IN
       req' = Accepted(r,
                 IF ~IsPost(method) THEN response(q, 405)
                 ELSE IF get(sig) = NoHeader THEN Panicked(q)
                 ELSE IF get(event) = NoHeader THEN Panicked(q)
                 ELSE [q EXCEPT !.pc = "aggregate"])
    /\ UNCHANGED <<git, svc, SECRET, task, chan, config, mainPc, mainLog, containers,
                   nextId, cloned, faults>>

\* A request of any method, headers and body.
SvcCall(r) ==
    /\ svc = "Svc" /\ Arrives(r)
    /\ \E method \in Methods, body \in Bodies, event \in EventHeaders :
       \E sig \in SigHeadersFor(body) :
         SvcTakes(r, method, sig, event, body)

\* A delivery by the hosting service, as for ReqHandlerDelivery.
SvcDelivery(r) ==
    /\ svc = "Svc" /\ Arrives(r)
    /\ \E body \in Deliveries :
         SvcTakes(r, "POST", Signed(body), PushEvent, body)

\* main.rs 79-95, after body::aggregate returned: `?` on the body and on
\* json::parse, the comparison, the unwraps on the two top-level fields.
SvcVerdict(q, aggOk) ==
    IF ~aggOk THEN "err"
    ELSE IF ~q.body.utf8 THEN "err"
    ELSE IF SlicePanics(q.sig.val) THEN "panic"
    ELSE IF ~SigMatches(q.sig.val, q.body, SECRET) THEN "401"
    ELSE IF ~q.body.json THEN "err"
    ELSE IF as_str(q.body.top_name) = "none" THEN "panic"
    ELSE IF as_str(q.body.top_url) = "none" THEN "panic"
    ELSE "deploy"

SvcSteps(q, aggOk) ==
    IF ~aggOk \/ ~q.body.utf8 THEN <<>>
    ELSE IF SlicePanics(q.sig.val) THEN <<"hmac">>
    ELSE IF ~SigMatches(q.sig.val, q.body, SECRET) THEN <<"hmac", "compare">>
    ELSE IF ~q.body.json THEN <<"hmac", "compare", "parse">>
    ELSE IF as_str(q.body.top_name) = "none" \/ as_str(q.body.top_url) = "none"
         THEN <<"hmac", "compare", "parse", "extract">>
    ELSE <<"hmac", "compare", "parse", "extract", "deploy">>

\* main.rs 79-98 and 116-121: the checks, then clone_or_fetch_repo and the test
\* for a Dockerfile, all without another await.
SvcBody(r) ==
    /\ svc = "Svc"
    /\ mainPc \in {"Serving", "ShuttingDown"}
    /\ req[r].pc = "aggregate"
    /\ \E aggOk \in BOOLEAN, ok \in BOOLEAN, dockerfile \in BOOLEAN :
         LET q == [req[r] EXCEPT !.agg = IF aggOk THEN "ok" ELSE "err",
                                 !.steps = SvcSteps(req[r], aggOk)]
             v == SvcVerdict(req[r], aggOk)
             t == AfterSync(NewTask("inline", as_str(q.body.top_name),
                                    as_str(q.body.top_url)), ok, dockerfile)
         IN
         IF v = "deploy"
         THEN /\ Inject(Cost(~ok))
              /\ cloned' = clone_or_fetch_repo(t.name, ok)
              /\ task' = [task EXCEPT ![r] = t]
              /\ req' = [req EXCEPT ![r] = SvcAfter(q, t)]
         ELSE /\ ok /\ dockerfile
              /\ Inject(Cost(~aggOk))
              /\ req' = [req EXCEPT ![r] =
                           CASE v = "panic" -> Panicked(q)
                             [] v = "err" -> Errored(q)
                             [] OTHER -> response(q, 401)]
              /\ UNCHANGED <<task, cloned>>
    /\ UNCHANGED <<git, svc, SECRET, chan, config, mainPc, mainLog, containers, nextId>>

\* main.rs 98-104
SvcBuild(r) ==
    /\ Alive /\ Inline(r) /\ task[r].pc = "build"
    /\ \E outcome \in BuildOutcomes, descriptor \in BOOLEAN :
         LET t == AfterBuild(task[r], outcome, descriptor) IN
         /\ Inject(Cost(outcome # "ok"))
         /\ task' = [task EXCEPT ![r] = t]
         /\ req' = [req EXCEPT ![r] = SvcAfter(req[r], t)]
    /\ UNCHANGED <<git, svc, SECRET, chan, config, mainPc, mainLog, containers,
                   nextId, cloned>>

\* main.rs 105-107
SvcLoad(r) ==
    /\ Alive /\ Inline(r) /\ task[r].pc = "load"
    /\ \E ok \in BOOLEAN :
         LET t == AfterLoad(task[r], r, ok) IN
         /\ Inject(Cost(~ok))
         /\ task' = [task EXCEPT ![r] = t]
         /\ req' = [req EXCEPT ![r] = SvcAfter(req[r], t)]
    /\ UNCHANGED <<git, svc, SECRET, chan, config, mainPc, mainLog, containers,
                   nextId, cloned>>

\* main.rs 108 and 116
SvcSend(r) ==
    /\ Alive /\ Inline(r) /\ task[r].pc = "send"
    /\ CanSend
    /\ chan' = Append(chan, task[r].cfg)
    /\ task' = [task EXCEPT ![r] = AfterSend(task[r])]
    /\ req' = [req EXCEPT ![r] = response(req[r], 200)]
    /\ UNCHANGED <<git, svc, SECRET, config, mainPc, mainLog, containers, nextId, cloned, faults>>

\* main.rs 110: stop_container on the descriptor, which names the container
\* by the deployment's name; the result is dropped.
SvcStop(r) ==
    /\ Alive /\ Inline(r) /\ task[r].pc = "reconcile"
    /\ LET target == ByName(task[r].name) IN
       \E out \in StopOutcomes(target) :
         /\ Inject(Cost(out # "ok" /\ target # {}))
         /\ containers' = StopEffect(target, out)
         /\ task' = [task EXCEPT ![r] =
                       [Logged(task[r], StopCalls(TargetId(target), out)) EXCEPT
                          !.pc = "run"]]
    /\ UNCHANGED <<git, svc, SECRET, req, chan, config, mainPc, mainLog, nextId, cloned>>

\* main.rs 111 and 116: run_container, its result dropped, then the response.
SvcRun(r) ==
    /\ Alive /\ Inline(r) /\ task[r].pc = "run"
    /\ \E out \in RunOutcomes :
         /\ Inject(Cost(out # "ok"))
         /\ containers' = RunEffect(task[r].cfg, out)
         /\ nextId' = RunNextId(out)
         /\ task' = [task EXCEPT ![r] = AfterRun(task[r], out)]
         /\ req' = [req EXCEPT ![r] = response(req[r], 200)]
    /\ UNCHANGED <<git, svc, SECRET, chan, config, mainPc, mainLog, cloned>>

\* ------------------------------------------------------------------- main
\* main.rs 162-164: the graceful-shutdown future completes when rx.recv()
\* returns.  It returns None only when every sender is gone, and the server
\* holds one for as long as it runs.
MainRecv ==
    /\ mainPc = "Serving"
    /\ chan # <<>>
    /\ config' = Head(chan)
    /\ chan' = Tail(chan)
    /\ mainPc' = "ShuttingDown"
    /\ UNCHANGED <<git, svc, SECRET, req, task, mainLog, containers, nextId, cloned, faults>>

\* main.rs 166-168: server.await returns once no request is in flight.
ServerShutdown ==
    /\ mainPc = "ShuttingDown"
    /\ \A r \in Reqs : req[r].pc \in Finished
    /\ mainPc' = "Reapplying"
    /\ UNCHANGED <<git, svc, SECRET, req, task, chan, config, mainLog, containers,
                   nextId, cloned, faults>>

\* main.rs 170-173: run_container on the received descriptor, then main
\* returns and the process ends.
MainReapply ==
    /\ mainPc = "Reapplying"
    /\ \E out \in RunOutcomes :
         /\ Inject(Cost(out # "ok"))
         /\ mainLog' = mainLog \o RunCalls(out)
         /\ containers' = RunEffect(config, out)
         /\ nextId' = RunNextId(out)
    /\ mainPc' = "Terminated"
    /\ UNCHANGED <<git, svc, SECRET, req, task, chan, config, cloned>>

Next ==
    \/ \E r \in Reqs :
         \/ ReqHandlerCall(r) \/ ReqHandlerBody(r)
         \/ TaskSync(r) \/ TaskBuild(r) \/ TaskLoad(r) \/ TaskSend(r)
         \/ TaskList(r) \/ TaskStop(r) \/ TaskRun(r)
         \/ SvcCall(r) \/ SvcBody(r)
         \/ SvcBuild(r) \/ SvcLoad(r) \/ SvcSend(r) \/ SvcStop(r) \/ SvcRun(r)
    \/ MainRecv
    \/ ServerShutdown
    \/ MainReapply

Spec == Init /\ [][Next]_vars

\* ------------------------------------------- one repository and its syncs
\* A commit is pushed to the remote's main branch.
UpstreamPush ==
    /\ git.made < MaxCommits
    /\ git' = [git EXCEPT !.upstream = Append(@, git.made + 1),
                          !.made = @ + 1, !.moved = TRUE]
    /\ UNCHANGED <<svc, SECRET, req, task, chan, config, mainPc, mainLog,
                   containers, nextId, cloned, faults>>

\* The remote's main branch is rewritten (a forced push): its newest commit
\* is dropped.
UpstreamRewrite ==
    /\ Len(git.upstream) > 1
    /\ git' = [git EXCEPT !.upstream = SubSeq(@, 1, Len(@) - 1), !.moved = TRUE]
    /\ UNCHANGED <<svc, SECRET, req, task, chan, config, mainPc, mainLog,
                   containers, nextId, cloned, faults>>

\* utils.rs 74-80: one call of clone_or_fetch_repo on the path.
SyncRepo ==
    /\ \E ok \in BOOLEAN :
         LET out == clone_or_fetch(git.path, git.upstream, ok) IN
         git' = [git EXCEPT !.before = git.path,
                            !.path = out.path,
                            !.changed = out.changed,
                            !.again = git.path.exists /\ ~git.moved,
                            !.moved = IF ok THEN FALSE ELSE @]
    /\ UNCHANGED <<svc, SECRET, req, task, chan, config, mainPc, mainLog,
                   containers, nextId, cloned, faults>>

NextSync == UpstreamPush \/ UpstreamRewrite \/ SyncRepo

\* The process idle, its repository pushed to and synced.
SyncSpec == Init /\ [][NextSync]_vars

\* The descriptor for the own name that the deploy of an earlier request
\* loaded; that request was answered and its connection has ended.
EarlierConfig == Config(PKG_NAME, 0)

\* The process at a moment at which a deploy of an earlier request has sent
\* its descriptor and main's rx.recv() has not been polled since: the
\* descriptor is in the channel and the own checkout exists.
InitPending ==
    /\ svc \in {"ReqHandler", "Svc"}
    /\ SECRET \in Secrets
    /\ req = [r \in Reqs |-> IdleReq]
    /\ task = [r \in Reqs |-> NoTask]
    /\ chan = <<EarlierConfig>>
    /\ config = NoConfig
    /\ mainPc = "Serving"
    /\ mainLog = <<>>
    /\ containers = { Container(i, IF i = 1 THEN "app" ELSE "gen", "app", TRUE) :
                        i \in 1..NumInitial }
    /\ nextId = NumInitial + 1
    /\ cloned = {PKG_NAME}
    /\ faults = 0
    /\ git = NoRepo

\* The tokio runtime polls every future that can make progress: a handler
\* whose body has arrived, a deploy step whose call returns, a send once the
\* channel has room, the shutdown future once a descriptor is in the channel,
\* the server once no request is in flight, and main after the server.
\* Nothing obliges a client to send a request.
Fairness ==
    /\ \A r \in Reqs :
         /\ WF_vars(ReqHandlerBody(r)) /\ WF_vars(SvcBody(r))
         /\ WF_vars(TaskSync(r)) /\ WF_vars(TaskBuild(r)) /\ WF_vars(TaskLoad(r))
         /\ WF_vars(TaskSend(r)) /\ WF_vars(TaskList(r)) /\ WF_vars(TaskStop(r))
         /\ WF_vars(TaskRun(r))
         /\ WF_vars(SvcBuild(r)) /\ WF_vars(SvcLoad(r)) /\ WF_vars(SvcSend(r))
         /\ WF_vars(SvcStop(r)) /\ WF_vars(SvcRun(r))
    /\ WF_vars(MainRecv)
    /\ WF_vars(ServerShutdown)
    /\ WF_vars(MainReapply)

\* The process under deliveries of the hosting service only.
NextDelivered ==
    \/ \E r \in Reqs :
         \/ ReqHandlerDelivery(r) \/ ReqHandlerBody(r)
         \/ TaskSync(r) \/ TaskBuild(r) \/ TaskLoad(r) \/ TaskSend(r)
         \/ TaskList(r) \/ TaskStop(r) \/ TaskRun(r)
         \/ SvcDelivery(r) \/ SvcBody(r)
         \/ SvcBuild(r) \/ SvcLoad(r) \/ SvcSend(r) \/ SvcStop(r) \/ SvcRun(r)
    \/ MainRecv
    \/ ServerShutdown
    \/ MainReapply

FairSpec == InitPending /\ [][NextDelivered]_vars /\ Fairness

\* ------------------------------------------------------- reading the logs
\* The positions of a log that hold a call of one of the operations.
Ops(log, ops) == {i \in DOMAIN log : log[i].op \in ops}
\* The positions of a log whose call ended with a failure.
Failures(log) == {i \in DOMAIN log : log[i].out # "ok"}
\* The containers named by the successful calls of an operation.
Done(log, op) == {log[i].arg : i \in {j \in Ops(log, {op}) : log[j].out = "ok"}}

ContainerOps == {"stop", "remove", "create", "start"}
ReconcileOps == {"list", "stop", "remove", "inspect", "create", "start"}

\* Request r has been taken up and its connection has not ended.
Present(r) == req[r].pc \notin {"idle", "closed"}
\* The handler is through with request r: it answered, panicked or failed.
Answered(r) == req[r].pc \in {"done", "panicked", "errored"}
\* Request r started deploy steps.
Deploys(r) == task[r].pc # "none"

\* The hex digest of body b under key k, as the sender writes it.
Digest(b, k) == hex_encode(HMAC_mac(b, k))
\* The part of a header value after its first 7 characters is `hex`.
CarriesDigest(val, hex) == Len(val) >= PrefixLen /\ SliceFrom7(val) = hex

\* A POST request with both headers readable and a body that was read and
\* decoded.
Decodable(r) ==
    /\ req[r].method = "POST"
    /\ req[r].sig.kind = "text" /\ req[r].event.kind = "text"
    /\ req[r].agg = "ok" /\ req[r].body.utf8

\* ----------------------------------------------------------------- claims

\* C1: a deploy for the service's own name makes no stop, remove, create or
\* start call; it sends at most one descriptor, and exactly one once it has
\* loaded the descriptor and ended; main leaves Serving only with a
\* descriptor that a deploy sent and that is no longer in the channel.
C1_SelfTargetHandsOff ==
    /\ \A r \in Reqs :
         task[r].name = PKG_NAME =>
           /\ Ops(task[r].log, ContainerOps \cup {"list", "inspect"}) = {}
           /\ Cardinality(Ops(task[r].log, {"send"})) <= 1
           /\ (task[r].pc = "done" /\ Ops(task[r].log, {"load"}) # {})
                => Cardinality(Ops(task[r].log, {"send"})) = 1
           /\ task[r].pc = "send" => Ops(task[r].log, {"send"}) = {}
    /\ mainPc = "Serving" => config = NoConfig /\ mainLog = <<>>
    /\ mainPc # "Serving" =>
         /\ config.name = PKG_NAME
         /\ \A i \in DOMAIN chan : chan[i] # config
         /\ \E r \in Reqs : task[r].cfg = config /\ Ops(task[r].log, {"send"}) # {}

\* C1 witness: a deploy for the own name has sent its descriptor and ended,
\* and main has consumed the descriptor and shut the server down.
C1_Witness ==
    \E r \in Reqs :
        /\ task[r].name = PKG_NAME /\ task[r].pc = "done"
        /\ Ops(task[r].log, {"send"}) # {}
        /\ mainPc = "Reapplying" /\ config = task[r].cfg

\* C2: a 200 response is produced when the deploy steps of the request have
\* been handed to a detached task that has not run any step yet.
C2_RespondsBeforeDeploy ==
    [][\A r \in Reqs :
         (req[r].status # 200 /\ req'[r].status = 200)
           => /\ task'[r].origin = "spawned"
              /\ task'[r].pc = "sync"
              /\ task'[r].log = <<>>]_vars

\* C3: a POST request with both headers and a decodable body whose signature
\* header does not carry the digest of the body under SECRET after its first
\* 7 characters is answered 401 and starts no deploy step.
C3_MismatchIs401 ==
    \A r \in Reqs :
        (/\ Answered(r) /\ Decodable(r)
         /\ ~CarriesDigest(req[r].sig.val, Digest(req[r].body, SECRET)))
          => req[r].status = 401 /\ ~Deploys(r)

\* C4: verification accepts the digest of the received body under SECRET and
\* rejects (401) the digest under SECRET of any other body; deploy steps start
\* only for a request that carried the digest of its own body.
C4_VerifyAcceptsOwnDigestOnly ==
    \A r \in Reqs :
        /\ (Present(r) /\ Deploys(r))
             => CarriesDigest(req[r].sig.val, Digest(req[r].body, SECRET))
        /\ (Answered(r) /\ Decodable(r)
              /\ CarriesDigest(req[r].sig.val, Digest(req[r].body, SECRET)))
             => req[r].status # 401 /\ Len(req[r].steps) > 2
        /\ \A b \in Bodies :
             (/\ Answered(r) /\ Decodable(r) /\ b # req[r].body
              /\ CarriesDigest(req[r].sig.val, Digest(b, SECRET)))
               => req[r].status = 401 /\ ~Deploys(r) /\ Len(req[r].steps) = 2

\* C4 witness: one request was accepted on the digest of its body and started
\* deploy steps.
C4_Witness ==
    \E r \in Reqs :
        /\ Present(r) /\ Deploys(r) /\ Decodable(r)
        /\ req[r].sig.val = Sha256Prefix \o Digest(req[r].body, SECRET)

\* C5: a POST request without a readable signature header or without a
\* readable event header is answered 400 and starts no deploy step.
C5_MissingHeaderIs400 ==
    \A r \in Reqs :
        (/\ Answered(r) /\ req[r].method = "POST"
         /\ (req[r].sig.kind # "text" \/ req[r].event.kind # "text"))
          => req[r].status = 400 /\ ~Deploys(r)

\* C6: a request whose method is not POST is answered 405 with an empty body
\* whatever its headers and body are; no check is run on it and no deploy
\* step is started.
C6_NonPostIs405 ==
    \A r \in Reqs :
        (Present(r) /\ req[r].method # "POST")
          => /\ req[r].pc = "done"
             /\ req[r].status = 405 /\ req[r].respBody = "empty"
             /\ req[r].agg = "none" /\ req[r].steps = <<>>
             /\ ~Deploys(r)

\* C6 witness: a GET request that carries both headers, a valid signature and
\* a complete payload was answered 405.
C6_Witness ==
    \E r \in Reqs :
        /\ req[r].method = "GET" /\ req[r].status = 405
        /\ req[r].body = AppBody /\ req[r].event.kind = "text"
        /\ req[r].sig.val = Sha256Prefix \o Digest(AppBody, SECRET)

\* C7: a correctly signed POST request whose body is not JSON, or lacks a
\* string repository.name or a string repository.ssh_url, is answered 400 and
\* starts no deploy step.
C7_MalformedPayloadIs400 ==
    \A r \in Reqs :
        (/\ Present(r) /\ req[r].pc # "aggregate" /\ Decodable(r)
         /\ CarriesDigest(req[r].sig.val, Digest(req[r].body, SECRET))
         /\ (~req[r].body.json \/ ParamsMissing(req[r].body)))
          => req[r].status = 400 /\ ~Deploys(r)

\* C8: when the sync of a deploy task failed, the task ends there: the failed
\* sync is its last call.
C8_SyncFailureAborts ==
    \A r \in Reqs :
        (Spawned(r) /\ Ops(task[r].log, {"sync"}) \cap Failures(task[r].log) # {})
          => task[r].pc = "done" /\ Len(task[r].log) = 1

\* C9: when the image build of a deploy task failed, the task ends there: the
\* failed build is its last call.
C9_BuildFailureAborts ==
    \A r \in Reqs :
        \A i \in Ops(task[r].log, {"build"}) \cap Failures(task[r].log) :
            Spawned(r) => task[r].pc = "done" /\ Len(task[r].log) = i

\* The new container is created only when every listed container has had its
\* turn, and after every stop and remove call.
CreatedLast(t) ==
    \A i \in Ops(t.log, {"create"}) :
        /\ t.conts = <<>>
        /\ \A j \in Ops(t.log, {"list", "stop", "remove"}) : j < i

\* A trigger_update reconciliation that has ended and none of whose engine
\* calls failed.
CleanReconcile(t) ==
    /\ t.origin = "spawned" /\ t.pc = "done"
    /\ Ops(t.log, {"list"}) # {}
    /\ Ops(t.log, ReconcileOps) \cap Failures(t.log) = {}

\* One new container was created and started, and it was created last.
OneNewContainer(t) ==
    /\ Cardinality(Ops(t.log, {"create"})) = 1
    /\ Cardinality(Ops(t.log, {"start"})) = 1
    /\ Done(t.log, "start") = Done(t.log, "create")
    /\ CreatedLast(t)

ListedIds(t) == {t.listed[i].id : i \in DOMAIN t.listed} \ {0}

Attempted(log) == {log[i].arg : i \in Ops(log, {"stop"})}
\* The ids of the summaries the loop has not reached yet.
Queued(t) == {t.conts[i].id : i \in DOMAIN t.conts} \ {0}
\* A trigger_update reconciliation whose listing succeeded.
Reconciling(t) ==
    /\ t.origin = "spawned"
    /\ \E i \in Ops(t.log, {"list"}) : t.log[i].out = "ok"
\* A stop or remove call of the log failed.
StopFailed(t) == Ops(t.log, {"stop", "remove"}) \cap Failures(t.log) # {}

RunOps == {"inspect", "create", "start"}

\* In a log, create directly follows a successful inspect, start directly
\* follows a successful create and names the container it created, and a
\* failed call of run_container is the last call of the log.
RunStopsAtFailure(log) ==
    /\ \A i \in Ops(log, {"create"}) :
         i > 1 /\ log[i - 1].op = "inspect" /\ log[i - 1].out = "ok"
    /\ \A i \in Ops(log, {"start"}) :
         /\ i > 1 /\ log[i - 1].op = "create" /\ log[i - 1].out = "ok"
         /\ log[i].arg = log[i - 1].arg
    /\ \A i \in Ops(log, RunOps) \cap Failures(log) : i = Len(log)

\* No container that a log removed exists in the engine, and none is named by
\* a create or start call of the log.
NoneRevived(log) ==
    \A id \in Done(log, "remove") :
        /\ \A c \in containers : c.id # id
        /\ \A j \in Ops(log, {"create", "start"}) : log[j].arg # id

\* A step in which the log of request r's deploy gains a failed call of
\* run_container.
RunFails(r) ==
    /\ Len(task'[r].log) > Len(task[r].log)
    /\ task'[r].log[Len(task'[r].log)].op \in RunOps
    /\ task'[r].log[Len(task'[r].log)].out # "ok"

\* C12: a failed inspect, create or start ends the reconciliation: no create
\* follows a failed inspect and no start follows a failed create, the deploy
\* is over, no container it removed exists again or is created or started
\* again, and the step in which the call fails leaves the serving loop where
\* it is.
C12_RunFailureEndsAttempt ==
    /\ [](\A r \in Reqs :
            /\ RunStopsAtFailure(task[r].log)
            /\ NoneRevived(task[r].log)
            /\ Ops(task[r].log, RunOps) \cap Failures(task[r].log) # {}
                 => task[r].pc = "done")
    /\ [][\A r \in Reqs : RunFails(r) => mainPc' = mainPc /\ config' = config]_vars

\* C12 witness: a reconciliation removed a matched container, the create of
\* the new one failed, and the serving loop is in Serving.
C12_Witness ==
    \E r \in Reqs :
        /\ Reconciling(task[r]) /\ task[r].pc = "done"
        /\ Done(task[r].log, "remove") # {}
        /\ task[r].log[Len(task[r].log)] = Call("create", 0, "err")
        /\ mainPc = "Serving"

\* The requests whose deploy completed a send on the channel.
Senders == {r \in Reqs : Ops(task[r].log, {"send"}) # {}}

\* C13: whatever the interleaving of the deploys, at most one descriptor is
\* sent on the channel, and no descriptor is in the channel once the serving
\* loop has received one (it receives only once, in Serving, so a descriptor
\* sent afterwards is never consumed).
C13_HandoffOncePerCycle ==
    /\ Cardinality(Senders) <= 1
    /\ mainPc # "Serving" => chan = <<>>

\* main's positions in the order main() goes through them.
MainOrder == <<"Serving", "ShuttingDown", "Reapplying", "Terminated">>
Position(pc) == CHOOSE i \in DOMAIN MainOrder : MainOrder[i] = pc

\* C14: main goes Serving, ShuttingDown, Reapplying, Terminated, one position
\* at a time; once the descriptor is received no new request is taken up;
\* main applies the descriptor only when no request is in flight, with one
\* run_container call for the received descriptor (one create and one start
\* when the engine calls succeed); and, the runtime being fair, a received
\* descriptor is eventually followed by Terminated.
C14_ServingLifecycle ==
    /\ [][mainPc' # mainPc => Position(mainPc') = Position(mainPc) + 1]_vars
    /\ [][mainPc # "Serving" =>
            \A r \in Reqs : req[r].pc = "idle" => req'[r].pc = "idle"]_vars
    /\ [](mainPc \in {"Serving", "ShuttingDown"} => mainLog = <<>>)
    /\ [](mainPc \in {"Reapplying", "Terminated"} =>
            \A r \in Reqs : req[r].pc \in Finished)
    /\ [](mainPc = "Terminated" =>
            /\ Cardinality(Ops(mainLog, {"inspect"})) = 1
            /\ Failures(mainLog) = {} =>
                 /\ Cardinality(Ops(mainLog, {"create"})) = 1
                 /\ Cardinality(Ops(mainLog, {"start"})) = 1
                 /\ \A id \in Done(mainLog, "start") :
                      \E c \in containers : c.id = id /\ c.image = config.name)
    /\ (mainPc = "ShuttingDown") ~> (mainPc = "Terminated")

\* A step in which the deploy of request r fails: its log gains a call that
\* failed, or it panics (the unwrap on a descriptor that did not load).
StepFails(r) ==
    \/ task[r].pc # "panicked" /\ task'[r].pc = "panicked"
    \/ \E i \in DOMAIN task'[r].log :
         i > Len(task[r].log) /\ task'[r].log[i].out # "ok"

\* The step changes nothing outside the deploy of request r and the
\* containers and the checkout of its own target.
Contained(r) ==
    /\ mainPc' = mainPc /\ config' = config /\ mainLog' = mainLog
    /\ chan' = chan
    /\ \A o \in Reqs \ {r} : task'[o] = task[o] /\ req'[o] = req[o]
    /\ cloned' \ {task[r].name} = cloned \ {task[r].name}
    /\ \A c \in containers : c.image # task[r].name => c \in containers'

\* C15: a step in which a deploy fails (sync, build, descriptor load, list,
\* stop, remove, inspect, create or start) leaves main where it is (it neither
\* ends the process nor leaves Serving), leaves the channel as it is, and
\* leaves every other request, every other deploy and the checkouts and
\* containers of every other target unchanged.
C15_ErrorsAreContained ==
    [][\A r \in Reqs : StepFails(r) => Contained(r)]_vars

\* C15 witness: the deploy of one request panicked on its descriptor while
\* the deploy of another request, for another target, is in its stop loop and
\* main is in Serving.
C15_Witness ==
    \E r \in Reqs, o \in Reqs :
        /\ task[r].pc = "panicked"
        /\ task[o].pc = "stop" /\ task[o].name # task[r].name
        /\ mainPc = "Serving"

\* The calls that hand off or reconcile.
DeployOps == {"send"} \cup ReconcileOps

\* The steps of one deploy are in their order: the log starts with the sync,
\* a build is its second call, the descriptor load its third, and the handoff
\* or the engine calls follow a successful load; a step starts when the calls
\* of the steps before it have returned.
InStepOrder(t) ==
    /\ t.log # <<>> => t.log[1].op = "sync"
    /\ Ops(t.log, {"sync"}) \subseteq {1}
    /\ Ops(t.log, {"build"}) \subseteq {2}
    /\ Ops(t.log, {"load"}) \subseteq {3}
    /\ \A i \in Ops(t.log, DeployOps) : i > 3 /\ t.log[3] = Call("load", 0, "ok")
    /\ Ops(t.log, {"send"}) = {} \/ Ops(t.log, ReconcileOps) = {}
    /\ t.pc = "sync" => t.log = <<>>
    /\ t.pc = "build" => Len(t.log) = 1
    /\ t.pc = "load" => Len(t.log) = 2
    /\ t.pc \in {"send", "reconcile"} => Len(t.log) = 3

\* The two file tests are made after the sync and after the build, and a
\* test that fails ends the deploy where it is.
StopsAtMissingFile(t) ==
    /\ t.dockerfile = "unchecked" <=> t.log = <<>>
    /\ t.descriptor = "unchecked" <=> Len(t.log) < 2
    /\ t.dockerfile = "absent" => t.pc = "done" /\ Len(t.log) = 1
    /\ t.descriptor = "absent" => t.pc = "done" /\ Len(t.log) = 2
    /\ Len(t.log) >= 2 => t.dockerfile = "found"
    /\ Len(t.log) >= 3 => t.descriptor = "found"

\* C16: the steps of a deploy run in the order sync, Dockerfile test, build,
\* descriptor test and load, then handoff or reconciliation, each after the
\* one before it returned; without a Dockerfile the deploy ends without a
\* build, and without a descriptor it ends after the build with no handoff
\* and no engine call on a container.
C16_StepsInOrder ==
    \A r \in Reqs :
        Deploys(r) => InStepOrder(task[r]) /\ StopsAtMissingFile(task[r])

\* C16 witness: one deploy ended after its sync because the checkout has no
\* Dockerfile, and another ended after its build because its target has no
\* descriptor.
C16_Witness ==
    \E r \in Reqs, o \in Reqs :
        /\ Spawned(r) /\ task[r].pc = "done" /\ task[r].dockerfile = "absent"
        /\ task[r].log = <<Call("sync", 0, "ok")>>
        /\ Spawned(o) /\ task[o].pc = "done" /\ task[o].descriptor = "absent"
        /\ task[o].log = <<Call("sync", 0, "ok"), Call("build", 0, "ok")>>

\* The checks that read the decoded payload or act on it.
PayloadSteps == {"parse", "extract", "spawn", "deploy"}

\* The signature header of request r carries the digest of its body.
Matches(r) == CarriesDigest(req[r].sig.val, Digest(req[r].body, SECRET))

\* C17: the payload is parsed, its fields are extracted and deploy steps are
\* started only after the comparison of the signature returned a match: the
\* HMAC and the comparison are the first two checks, every check on the
\* payload comes after them and only in a request whose header carries the
\* digest of its body, and a request whose header (of 7 characters or more)
\* does not is answered 401 after exactly those two checks, whether or not
\* its body is JSON or names a repository.
C17_PayloadReadAfterMatch ==
    \A r \in Reqs :
        Present(r) =>
          /\ \A i \in DOMAIN req[r].steps :
               req[r].steps[i] \in PayloadSteps =>
                 /\ i > 2 /\ req[r].steps[1] = "hmac" /\ req[r].steps[2] = "compare"
                 /\ Matches(r)
          /\ Deploys(r) => Matches(r) /\ Len(req[r].steps) = 5
          /\ (Answered(r) /\ Decodable(r) /\ ~SlicePanics(req[r].sig.val) /\ ~Matches(r))
               => /\ req[r].status = 401
                  /\ req[r].steps = <<"hmac", "compare">>
                  /\ ~Deploys(r)

\* C17 witness: a request whose body is not JSON and whose signature does not
\* match was answered 401, and a request whose signature matches was parsed
\* and started deploy steps.
C17_Witness ==
    \E r \in Reqs, o \in Reqs :
        /\ req[r].body = NotJsonBody /\ req[r].status = 401
        /\ Decodable(r) /\ ~Matches(r)
        /\ Present(o) /\ Deploys(o) /\ Matches(o) /\ Len(req[o].steps) = 5

\* C18: a build whose progress stream held an error entry returns an error
\* to its caller.
C18_StreamErrorIsBuildError ==
    \A r \in Reqs :
        \A i \in Ops(task[r].log, {"build"}) :
            task[r].log[i].out = "stream_err" => build_image(task[r].log[i].out) = "err"

\* Request r's deploy completes its send in this step.
Sends(r) == r \notin Senders /\ r \in Senders'

\* C19: the channel holds at most one descriptor; while one is pending, a
\* deploy that is at its send cannot complete it; a pending descriptor is
\* never replaced and leaves the channel only by being received into main's
\* config; and a second send completes only when main has received the
\* first, so the descriptor main receives is the one sent first.
C19_SingleSlotBlocks ==
    /\ [](Len(chan) <= ChannelCapacity)
    /\ [](\A r \in Reqs :
            (task[r].pc = "send" /\ chan # <<>>)
              => ~ENABLED TaskSend(r) /\ ~ENABLED SvcSend(r))
    /\ [][(chan # <<>> /\ chan' # chan)
            => chan' = Tail(chan) /\ config' = Head(chan) /\ task' = task]_vars
    /\ [][\A r \in Reqs :
            (Sends(r) /\ Senders # {})
              => /\ config # NoConfig /\ config' = config
                 /\ \E o \in Senders : task[o].cfg = config]_vars

\* C19 witness: one deploy for the own name has sent its descriptor, which is
\* still in the channel, and a second deploy for the own name is at its send.
C19_Witness ==
    \E r \in Reqs, o \in Reqs :
        /\ r # o
        /\ o \in Senders /\ chan = <<task[o].cfg>>
        /\ task[r].pc = "send" /\ task[r].name = PKG_NAME
        /\ mainPc = "Serving"

\* The next step of request r's handler or of its deploy.
StepOf(r) ==
    \/ ReqHandlerBody(r) \/ SvcBody(r)
    \/ TaskSync(r) \/ TaskBuild(r) \/ TaskLoad(r) \/ TaskSend(r)
    \/ TaskList(r) \/ TaskStop(r) \/ TaskRun(r)
    \/ SvcBuild(r) \/ SvcLoad(r) \/ SvcSend(r) \/ SvcStop(r) \/ SvcRun(r)

\* Request r's handler or deploy has a step left whose call can return: any
\* step but a send on a full channel.
HasStep(r) ==
    \/ req[r].pc = "aggregate"
    \/ /\ task[r].origin = "spawned" \/ req[r].pc = "pipeline"
       /\ \/ task[r].pc \in {"sync", "build", "load", "reconcile", "stop", "run"}
          \/ task[r].pc = "send" /\ chan = <<>>

Synced == git.changed \in {"true", "false"}
\* The commits the last sync brought into the local branch.
Applied == Commits(git.path.branch) \ Commits(git.before.branch)

\* C21: a sync of a path that does not exist clones and returns true; a sync
\* of an existing path returns true exactly when it brought at least one
\* commit into the local branch; and a sync that follows a successful sync
\* with no change of the remote in between returns false and leaves the
\* checkout as it was.
C21_SyncReportsChange ==
    /\ (Synced /\ ~git.before.exists)
         => /\ git.changed = "true"
            /\ git.path.exists /\ git.path.tree = Tip(git.path.branch)
    /\ (Synced /\ git.before.exists)
         => (git.changed = "true" <=> Applied # {})
    /\ (Synced /\ git.again)
         => git.changed = "false" /\ git.path = git.before

\* In a log every remove call directly follows a successful stop call on the
\* same container, so a failed stop is followed by no remove of it.
RemoveFollowsStop(log) ==
    \A i \in Ops(log, {"remove"}) :
        i > 1 /\ log[i - 1] = Call("stop", log[i].arg, "ok")

\* A step in which the log of request r's deploy gains a failed stop call.
StopFails(r) ==
    \E i \in DOMAIN task'[r].log :
        /\ i > Len(task[r].log)
        /\ task'[r].log[i].op = "stop" /\ task'[r].log[i].out # "ok"

\* C22: a container is removed only directly after its stop succeeded; the
\* step in which a stop fails issues no remove, leaves every container in
\* place and goes on with the next matched container or with run_container;
\* and a matched container listed without an id gets no stop and no remove:
\* the calls name listed ids only, one stop for each.
C22_RemoveOnlyAfterStop ==
    /\ [](\A r \in Reqs :
            /\ RemoveFollowsStop(task[r].log)
            /\ Reconciling(task[r]) =>
                 /\ \A i \in Ops(task[r].log, {"stop", "remove"}) :
                      task[r].log[i].arg \in ListedIds(task[r])
                 /\ Cardinality(Ops(task[r].log, {"stop"}))
                      <= Cardinality(ListedIds(task[r])))
    /\ [][\A r \in Reqs :
            StopFails(r) =>
              /\ containers' = containers
              /\ task'[r].log = Append(task[r].log, task'[r].log[Len(task'[r].log)])
              /\ task'[r].pc \in {"stop", "run"}]_vars

\* C22 witness: of two matched containers one was listed without an id and
\* the stop of the other failed; the reconciliation made that one call on a
\* container, left both in place and started the new container.
C22_Witness ==
    \E r \in Reqs :
        /\ Reconciling(task[r]) /\ task[r].pc = "done"
        /\ Len(task[r].listed) = 2 /\ Cardinality(ListedIds(task[r])) = 1
        /\ Ops(task[r].log, {"stop"}) \cap Failures(task[r].log) # {}
        /\ Ops(task[r].log, {"remove"}) = {}
        /\ \A i \in 1..NumInitial : \E c \in containers : c.id = i
        /\ Done(task[r].log, "start") # {}

\* The listing of the deploy failed.
ListFailed(t) == Ops(t.log, {"list"}) \cap Failures(t.log) # {}

\* A step in which the listing of request r's deploy fails.
ListFails(r) == ~ListFailed(task[r]) /\ ListFailed(task'[r])

\* C23: when find_containers_with_image fails the reconciliation ends there:
\* the failed listing is the last call of the deploy, which makes no stop,
\* remove, inspect, create or start call, and the step leaves the engine's
\* containers as they were.
C23_ListFailureEndsAttempt ==
    /\ [](\A r \in Reqs :
            ListFailed(task[r]) =>
              /\ task[r].pc = "done"
              /\ task[r].log[Len(task[r].log)] = Call("list", 0, "err")
              /\ Ops(task[r].log, ContainerOps \cup {"inspect"}) = {}
              /\ task[r].listed = <<>>)
    /\ [][\A r \in Reqs :
            ListFails(r) => containers' = containers /\ nextId' = nextId]_vars

\* C23 witness: the listing of a deploy for a target with two running
\* containers failed; the deploy is over and both containers run.
C23_Witness ==
    \E r \in Reqs :
        /\ ListFailed(task[r]) /\ task[r].pc = "done"
        /\ Cardinality(Ancestors(task[r].name)) = 2
        /\ Cardinality(containers) = 2

\* Request r went through the signature comparison.
Compared(r) ==
    /\ Present(r) /\ Decodable(r)
    /\ Len(req[r].sig.val) >= PrefixLen
    /\ req[r].pc # "aggregate"

\* The verifier's decision on request r: accepted when a check follows the
\* comparison, rejected (401) when the comparison is the last check.
Accepts(r) == Len(req[r].steps) > 2

\* C24: the verifier's decision is a function of the body, SECRET and the
\* header value after its first 7 characters: it accepts exactly when that
\* part is the digest of the body under SECRET, and two requests with the
\* same body whose header values agree after the first 7 characters get the
\* same decision, whatever their first 7 characters are.
C24_VerdictIgnoresPrefix ==
    /\ \A r \in Reqs :
         Compared(r) =>
           /\ Accepts(r) <=> SliceFrom7(req[r].sig.val) = Digest(req[r].body, SECRET)
           /\ ~Accepts(r) => req[r].status = 401 /\ ~Deploys(r)
    /\ \A r \in Reqs, o \in Reqs :
         (/\ Compared(r) /\ Compared(o)
          /\ req[r].body = req[o].body
          /\ SliceFrom7(req[r].sig.val) = SliceFrom7(req[o].sig.val))
           => /\ Accepts(r) <=> Accepts(o)
              /\ SubSeq(req[r].steps, 1, 2) = SubSeq(req[o].steps, 1, 2)

\* C24 witness: two requests with the same body, one with "sha256=" and one
\* with "sha512=" before the body's digest, were both accepted, and neither
\* was answered 401.
C24_Witness ==
    \E r \in Reqs, o \in Reqs :
        /\ Compared(r) /\ Compared(o) /\ req[r].body = req[o].body
        /\ req[r].sig.val = Sha256Prefix \o Digest(req[r].body, SECRET)
        /\ req[o].sig.val = OtherPrefix \o Digest(req[o].body, SECRET)
        /\ Accepts(r) /\ Accepts(o)
        /\ req[r].status # 401 /\ req[o].status # 401

====
